---- MODULE Spec2Model ----
(***************************************************************************)
(* Base64 string ops of tfjs-core: encodeBase64_ / decodeBase64_ applied   *)
(* element-wise over a string tensor.                                      *)
(*                                                                         *)
(* A JavaScript string is modelled as a sequence of UTF-16 code units      *)
(* (naturals below 2^16); a "binary string" (the argument of btoa, the     *)
(* result of atob) and an ASCII Base64 string are such sequences too.      *)
(* A Buffer is a sequence of bytes.  A tensor is a record                  *)
(* [shape |-> sequence of dimensions, values |-> sequence of strings].     *)
(* A call that can throw returns [ok |-> BOOLEAN, val |-> string].         *)
(***************************************************************************)
EXTENDS Integers, Sequences, FiniteSets, TLC

(***************************************************************************)
(* Bounds of the model.                                                    *)
(***************************************************************************)
MaxLen == 3
MaxB64Len == 3
MaxSize == 2
MaxCalls == 2

(***************************************************************************)
(* JavaScript integer and string primitives used by the source.           *)
(***************************************************************************)
RECURSIVE BitAnd(_, _)
BitAnd(a, b) ==
  IF a = 0 \/ b = 0 THEN 0
  ELSE (a % 2) * (b % 2) + 2 * BitAnd(a \div 2, b \div 2)

RECURSIVE BitOr(_, _)
BitOr(a, b) ==
  IF a = 0 THEN b
  ELSE IF b = 0 THEN a
  ELSE (IF a % 2 = 1 \/ b % 2 = 1 THEN 1 ELSE 0) + 2 * BitOr(a \div 2, b \div 2)

Shr(a, n) == a \div (2 ^ n)

\* every left operand in the source is masked first, so the result stays
\* below 2^21 and the 32-bit wrap of << never occurs
Shl(a, n) == a * (2 ^ n)

Ok(v) == [ok |-> TRUE, val |-> v]

Throw == [ok |-> FALSE, val |-> <<>>]

RECURSIVE Join(_)
Join(parts) ==
  IF parts = <<>> THEN <<>> ELSE Head(parts) \o Join(Tail(parts))

IsHighSurrogate(u) == u >= 55296 /\ u <= 56319

IsLowSurrogate(u) == u >= 56320 /\ u <= 57343

fromCharCode(n) == << n % 65536 >>

fromCodePoint(cp) ==
  IF cp > 1114111 THEN Throw
  ELSE IF cp < 65536 THEN Ok(<< cp >>)
  ELSE Ok(<< 55296 + ((cp - 65536) \div 1024), 56320 + ((cp - 65536) % 1024) >>)

\* charCodeAt(0) in place of codePointAt(0)
codePointAt0Unit(char) == char[1]

codePointAt0(char) ==
  IF Len(char) >= 2 /\ IsHighSurrogate(char[1]) /\ IsLowSurrogate(char[2])
  THEN 65536 + (char[1] - 55296) * 1024 + (char[2] - 56320)
  ELSE char[1]

RECURSIVE ArrayFrom(_)
ArrayFrom(s) ==
  IF s = <<>> THEN <<>>
  ELSE IF Len(s) >= 2 /\ IsHighSurrogate(s[1]) /\ IsLowSurrogate(s[2])
       THEN << SubSeq(s, 1, 2) >> \o ArrayFrom(SubSeq(s, 3, Len(s)))
       ELSE << SubSeq(s, 1, 1) >> \o ArrayFrom(Tail(s))

ReplaceAll(str, from, to) ==
  [k \in 1..Len(str) |-> IF str[k] = from THEN to ELSE str[k]]

\* replace(/=/, '') without the g flag: only the first match goes
RECURSIVE RemoveFirst(_, _)
RemoveFirst(str, ch) ==
  IF str = <<>> THEN <<>>
  ELSE IF Head(str) = ch THEN Tail(str)
  ELSE << Head(str) >> \o RemoveFirst(Tail(str), ch)

RemoveAll(str, ch) == SelectSeq(str, LAMBDA c : c # ch)

(***************************************************************************)
(* Base64 primitives of the two environments.                              *)
(***************************************************************************)
B64Alphabet ==
  [k \in 0..63 |->
     IF k < 26 THEN 65 + k
     ELSE IF k < 52 THEN 97 + (k - 26)
     ELSE IF k < 62 THEN 48 + (k - 52)
     ELSE IF k = 62 THEN 43 ELSE 47]

RECURSIVE Base64Encode(_)
Base64Encode(bytes) ==
  IF Len(bytes) = 0 THEN <<>>
  ELSE IF Len(bytes) = 1 THEN
    << B64Alphabet[Shr(bytes[1], 2)],
       B64Alphabet[Shl(BitAnd(bytes[1], 3), 4)], 61, 61 >>
  ELSE IF Len(bytes) = 2 THEN
    << B64Alphabet[Shr(bytes[1], 2)],
       B64Alphabet[BitOr(Shl(BitAnd(bytes[1], 3), 4), Shr(bytes[2], 4))],
       B64Alphabet[Shl(BitAnd(bytes[2], 15), 2)], 61 >>
  ELSE
    << B64Alphabet[Shr(bytes[1], 2)],
       B64Alphabet[BitOr(Shl(BitAnd(bytes[1], 3), 4), Shr(bytes[2], 4))],
       B64Alphabet[BitOr(Shl(BitAnd(bytes[2], 15), 2), Shr(bytes[3], 6))],
       B64Alphabet[BitAnd(bytes[3], 63)] >>
    \o Base64Encode(SubSeq(bytes, 4, Len(bytes)))

btoa(s) ==
  IF \E k \in 1..Len(s) : s[k] > 255 THEN Throw ELSE Ok(Base64Encode(s))

\* value of a character of the standard alphabet, -1 for any other character
B64Value(c) ==
  IF c >= 65 /\ c <= 90 THEN c - 65
  ELSE IF c >= 97 /\ c <= 122 THEN c - 97 + 26
  ELSE IF c >= 48 /\ c <= 57 THEN c - 48 + 52
  ELSE IF c = 43 THEN 62
  ELSE IF c = 47 THEN 63
  ELSE -1

\* bytes of a sequence of 6-bit values; the bits of an incomplete last
\* byte are discarded
RECURSIVE SextetsToBytes(_)
SextetsToBytes(v) ==
  IF Len(v) < 2 THEN <<>>
  ELSE IF Len(v) = 2 THEN << Shl(v[1], 2) + Shr(v[2], 4) >>
  ELSE IF Len(v) = 3 THEN
    << Shl(v[1], 2) + Shr(v[2], 4), Shl(BitAnd(v[2], 15), 4) + Shr(v[3], 2) >>
  ELSE
    << Shl(v[1], 2) + Shr(v[2], 4), Shl(BitAnd(v[2], 15), 4) + Shr(v[3], 2),
       Shl(BitAnd(v[3], 3), 6) + v[4] >>
    \o SextetsToBytes(SubSeq(v, 5, Len(v)))

IsAsciiWhitespace(c) == c \in {9, 10, 12, 13, 32}

\* window.atob: the forgiving-base64 decode of the HTML standard
atob(s) ==
  LET d == SelectSeq(s, LAMBDA c : ~IsAsciiWhitespace(c))
      e == IF Len(d) % 4 = 0 /\ Len(d) >= 2 /\ d[Len(d)] = 61 /\ d[Len(d) - 1] = 61
           THEN SubSeq(d, 1, Len(d) - 2)
           ELSE IF Len(d) % 4 = 0 /\ Len(d) >= 1 /\ d[Len(d)] = 61
           THEN SubSeq(d, 1, Len(d) - 1)
           ELSE d
  IN IF Len(e) % 4 = 1 THEN Throw
     ELSE IF \E k \in 1..Len(e) : B64Value(e[k]) = -1 THEN Throw
     ELSE Ok(SextetsToBytes([k \in 1..Len(e) |-> B64Value(e[k])]))

\* value of a character for Node's decoder, which takes both alphabets
NodeB64Value(c) ==
  IF c = 45 THEN 62 ELSE IF c = 95 THEN 63 ELSE B64Value(c)

RECURSIVE UpToFirst(_, _)
UpToFirst(s, ch) ==
  IF s = <<>> \/ Head(s) = ch THEN <<>>
  ELSE << Head(s) >> \o UpToFirst(Tail(s), ch)

\* Buffer.from(s, 'base64'): characters outside the alphabet are skipped
\* and decoding stops at the first '='; it never throws
BufferFromBase64(s) ==
  LET d == SelectSeq(UpToFirst(s, 61), LAMBDA c : NodeB64Value(c) # -1)
  IN SextetsToBytes([k \in 1..Len(d) |-> NodeB64Value(d[k])])

\* buf.toString('base64')
BufferToBase64(bytes) == Base64Encode(bytes)

\* UTF-8 bytes of one code point; a lone surrogate is written as U+FFFD
Utf8Bytes(cp) ==
  LET c == IF cp >= 55296 /\ cp <= 57343 THEN 65533 ELSE cp
  IN IF c < 128 THEN << c >>
     ELSE IF c < 2048 THEN << 192 + (c \div 64), 128 + (c % 64) >>
     ELSE IF c < 65536 THEN
       << 224 + (c \div 4096), 128 + ((c \div 64) % 64), 128 + (c % 64) >>
     ELSE
       << 240 + (c \div 262144), 128 + ((c \div 4096) % 64),
          128 + ((c \div 64) % 64), 128 + (c % 64) >>

\* Buffer.from(str): the UTF-8 encoding of the string
RECURSIVE BufferFrom(_)
BufferFrom(str) ==
  IF str = <<>> THEN <<>>
  ELSE IF Len(str) >= 2 /\ IsHighSurrogate(str[1]) /\ IsLowSurrogate(str[2])
       THEN Utf8Bytes(65536 + (str[1] - 55296) * 1024 + (str[2] - 56320))
            \o BufferFrom(SubSeq(str, 3, Len(str)))
       ELSE Utf8Bytes(str[1]) \o BufferFrom(Tail(str))

\* buf.toString(): the UTF-8 decoder of the Encoding standard; every
\* ill-formed subsequence becomes one U+FFFD
RECURSIVE Utf8Decode(_, _, _, _, _, _)
Utf8Decode(bytes, needed, seen, cp, lower, upper) ==
  IF bytes = <<>> THEN (IF needed # 0 THEN << 65533 >> ELSE <<>>)
  ELSE
    LET b == Head(bytes)
        rest == Tail(bytes)
    IN IF needed = 0 THEN
         IF b <= 127 THEN << b >> \o Utf8Decode(rest, 0, 0, 0, 128, 191)
         ELSE IF b >= 194 /\ b <= 223 THEN
           Utf8Decode(rest, 1, 0, BitAnd(b, 31), 128, 191)
         ELSE IF b >= 224 /\ b <= 239 THEN
           Utf8Decode(rest, 2, 0, BitAnd(b, 15),
                      IF b = 224 THEN 160 ELSE 128, IF b = 237 THEN 159 ELSE 191)
         ELSE IF b >= 240 /\ b <= 244 THEN
           Utf8Decode(rest, 3, 0, BitAnd(b, 7),
                      IF b = 240 THEN 144 ELSE 128, IF b = 244 THEN 143 ELSE 191)
         ELSE << 65533 >> \o Utf8Decode(rest, 0, 0, 0, 128, 191)
       ELSE IF b < lower \/ b > upper THEN
         << 65533 >> \o Utf8Decode(bytes, 0, 0, 0, 128, 191)
       ELSE
         LET c == BitOr(Shl(cp, 6), BitAnd(b, 63))
         IN IF seen + 1 = needed
            THEN fromCodePoint(c).val \o Utf8Decode(rest, 0, 0, 0, 128, 191)
            ELSE Utf8Decode(rest, needed, seen + 1, c, 128, 191)

BufferToString(bytes) == Utf8Decode(bytes, 0, 0, 0, 128, 191)

(***************************************************************************)
(* The helpers of string_ops.                                              *)
(***************************************************************************)
\* only '+' is replaced
toUrlSafePlusOnly(str) == ReplaceAll(str, 43, 45)

toUrlSafe(str) == ReplaceAll(ReplaceAll(str, 43, 45), 47, 95)

\* only '-' is replaced
fromUrlSafeDashOnly(str) == ReplaceAll(str, 45, 43)

fromUrlSafe(str) == ReplaceAll(ReplaceAll(str, 45, 43), 95, 47)

\* the second byte of a 3-byte sequence is written without "& 0x3f"
utf16ToUtf8MultibyteNoMask(char) ==
  LET cp == codePointAt0(char)
  IN IF cp < 128 THEN char
     ELSE IF cp < 2048 THEN
       fromCharCode(BitOr(192, Shr(cp, 6))) \o
       fromCharCode(BitOr(128, BitAnd(cp, 63)))
     ELSE IF cp < 65536 THEN
       fromCharCode(BitOr(224, BitAnd(Shr(cp, 12), 15))) \o
       fromCharCode(BitOr(128, Shr(cp, 6))) \o
       fromCharCode(BitOr(128, BitAnd(cp, 63)))
     ELSE
       fromCharCode(BitOr(240, BitAnd(Shr(cp, 18), 7))) \o
       fromCharCode(BitOr(128, BitAnd(Shr(cp, 12), 63))) \o
       fromCharCode(BitOr(128, BitAnd(Shr(cp, 6), 63))) \o
       fromCharCode(BitOr(128, BitAnd(cp, 63)))

utf16ToUtf8Multibyte(char) ==
  LET cp == codePointAt0(char)
  IN IF cp < 128 THEN char
     ELSE IF cp < 2048 THEN
       fromCharCode(BitOr(192, Shr(cp, 6))) \o
       fromCharCode(BitOr(128, BitAnd(cp, 63)))
     ELSE IF cp < 65536 THEN
       fromCharCode(BitOr(224, BitAnd(Shr(cp, 12), 15))) \o
       fromCharCode(BitOr(128, BitAnd(Shr(cp, 6), 63))) \o
       fromCharCode(BitOr(128, BitAnd(cp, 63)))
     ELSE
       fromCharCode(BitOr(240, BitAnd(Shr(cp, 18), 7))) \o
       fromCharCode(BitOr(128, BitAnd(Shr(cp, 12), 63))) \o
       fromCharCode(BitOr(128, BitAnd(Shr(cp, 6), 63))) \o
       fromCharCode(BitOr(128, BitAnd(cp, 63)))

utf8MultibyteToUtf16(seq) ==
  IF Len(seq) = 2 THEN
    fromCodePoint(Shl(BitAnd(31, seq[1]), 6) + BitAnd(63, seq[2]))
  ELSE IF Len(seq) = 3 THEN
    fromCodePoint(Shl(BitAnd(15, seq[1]), 12) + Shl(BitAnd(63, seq[2]), 6)
                  + BitAnd(63, seq[3]))
  ELSE IF Len(seq) = 4 THEN
    fromCodePoint(Shl(BitAnd(7, seq[1]), 18) + Shl(BitAnd(63, seq[2]), 12)
                  + Shl(BitAnd(63, seq[3]), 6) + BitAnd(63, seq[4]))
  ELSE Ok(seq)

IsCont(s, k) == k <= Len(s) /\ s[k] >= 128 /\ s[k] <= 191

\* the pattern without its alternative for 4-byte sequences
MatchLenNoFour(s) ==
  IF s[1] >= 192 /\ s[1] <= 223 /\ IsCont(s, 2) THEN 2
  ELSE IF s[1] >= 224 /\ s[1] <= 239 /\ IsCont(s, 2) /\ IsCont(s, 3) THEN 3
  ELSE 0

\* length of the match of multibyteSeq that starts at the head of s, 0 if none
MatchLen(s) ==
  IF s[1] >= 192 /\ s[1] <= 223 /\ IsCont(s, 2) THEN 2
  ELSE IF s[1] >= 224 /\ s[1] <= 239 /\ IsCont(s, 2) /\ IsCont(s, 3) THEN 3
  ELSE IF s[1] >= 240 /\ s[1] <= 247 /\ IsCont(s, 2) /\ IsCont(s, 3) /\ IsCont(s, 4)
  THEN 4
  ELSE 0

\* the pieces String.prototype.replace cuts s into with the global pattern
\* multibyteSeq: every match, and every unmatched character on its own
RECURSIVE multibyteSeq(_)
multibyteSeq(s) ==
  IF s = <<>> THEN <<>>
  ELSE LET n == IF MatchLen(s) = 0 THEN 1 ELSE MatchLen(s)
       IN << SubSeq(s, 1, n) >> \o multibyteSeq(SubSeq(s, n + 1, Len(s)))

\* s.replace(multibyteSeq, utf8MultibyteToUtf16)
ReplaceMultibyte(s) ==
  LET pieces == multibyteSeq(s)
      conv == [k \in 1..Len(pieces) |->
                 IF Len(pieces[k]) = 1 THEN Ok(pieces[k])
                 ELSE utf8MultibyteToUtf16(pieces[k])]
  IN IF \E k \in 1..Len(conv) : ~conv[k].ok THEN Throw
     ELSE Ok(Join([k \in 1..Len(conv) |-> conv[k].val]))

\* one iteration of the loop body of encodeBase64_, lines 127-139
EncodeValue(value, p, node) ==
  LET chars == ArrayFrom(value)
      b64 == IF node THEN Ok(BufferToBase64(BufferFrom(value)))
             ELSE btoa(Join([k \in 1..Len(chars) |-> utf16ToUtf8Multibyte(chars[k])]))
  IN IF ~b64.ok THEN Throw
     ELSE Ok(IF ~p THEN RemoveAll(toUrlSafe(b64.val), 61) ELSE toUrlSafe(b64.val))

\* one iteration of the loop body of decodeBase64_, lines 175-182
DecodeValue(value, node) ==
  LET sVal == fromUrlSafe(value)
  IN IF node THEN Ok(BufferToString(BufferFromBase64(sVal)))
     ELSE LET bin == atob(sVal)
          IN IF ~bin.ok THEN Throw ELSE ReplaceMultibyte(bin.val)

(***************************************************************************)
(* Tensors and the inputs of the model.                                    *)
(***************************************************************************)
RECURSIVE sizeFromShape(_)
sizeFromShape(shape) ==
  IF shape = <<>> THEN 1 ELSE Head(shape) * sizeFromShape(Tail(shape))

\* the result is made one-dimensional
TensorMakeFlat(shape, values) == [shape |-> << Len(values) >>, values |-> values]

\* Tensor.make(shape, {values}, dtype) of a string tensor
TensorMake(shape, values) == [shape |-> shape, values |-> values]

NoTensor == [shape |-> << -1 >>, values |-> <<>>]

\* an empty slot of "new Array(size)"
Undefined == << -1 >>

SeqsUpTo(S, n) == UNION {[1..m -> S] : m \in 0..n}

\* UTF-16 code units of the four UTF-8 lengths: 'A', U+0080, U+0800,
\* U+FFFF, and a high and a low surrogate (together U+10000)
TextUnits == {65, 128, 2048, 65535, 55296, 56320}

\* 'w' '6' 'A' '=' '*' '_' : "w6A" is U+00E0, "ww" a lead byte alone,
\* "_w" the byte 0xFF, '*' is outside both alphabets
Base64Units == {119, 54, 65, 61, 42, 95}

\* 'Hello TensorFlow.js!', U+1D306, 'ni hao, shi jie', U+10FFFF, U+007F,
\* U+07FF
TextLiterals ==
  { << 72, 101, 108, 108, 111, 32, 84, 101, 110, 115, 111, 114, 70, 108, 111,
       119, 46, 106, 115, 33 >>,
    << 55348, 57094 >>,
    << 20320, 22909, 44, 32, 19990, 30028 >>,
    << 56319, 57343 >>,
    << 127 >>,
    << 2047 >> }

\* the example of the decodeBase64 documentation, a padded and an unpadded
\* expected value of the tests, "9YCAgA" (bytes F5 80 80 80), "w6A=" and
\* "gA=="
Base64Literals ==
  { << 89, 87, 53, 53, 100, 71, 104, 112, 98, 109, 99, 103, 90, 87, 120, 122,
       90, 83, 66, 109, 98, 51, 73, 103, 101, 87, 57, 49, 73, 71, 100, 118, 97,
       87, 53, 110, 73, 71, 57, 117, 73, 71, 104, 108, 99, 109, 85, 95 >>,
    << 53, 76, 50, 103, 53, 97, 87, 57, 76, 67, 68, 107, 117, 74, 98, 110, 108,
       89, 119, 61 >>,
    << 56, 74, 50, 77, 104, 103 >>,
    << 57, 89, 67, 65, 103, 65 >>,
    << 119, 54, 65, 61 >>,
    << 103, 65, 61, 61 >> }

\* elements of the tensors with several elements: "QQ", U+2014
Elements == { << 81, 81 >>, << 8212 >> }

Shapes ==
  {sh \in UNION {[1..r -> 1..MaxSize] : r \in 0..2} : sizeFromShape(sh) <= MaxSize}

ScalarInputs ==
  {[shape |-> <<>>, values |-> << v >>] :
     v \in SeqsUpTo(TextUnits, MaxLen) \cup SeqsUpTo(Base64Units, MaxB64Len)
           \cup TextLiterals \cup Base64Literals}

ShapedInputs ==
  UNION {{[shape |-> sh, values |-> vs] : vs \in [1..sizeFromShape(sh) -> Elements]} :
           sh \in Shapes}

(***************************************************************************)
(* State.                                                                  *)
(***************************************************************************)
VARIABLES
  runningInNode,  \* the module constant of lines 23-24
  x,              \* the caller's tensor
  str,            \* $str, the tensor the call in progress works on
  pad,            \* the pad argument of the call
  op,             \* "none", "encodeBase64" or "decodeBase64"
  pc,             \* "idle", "loop", "done" or "threw"
  i,              \* the loop index
  resultValues,   \* the array being filled
  pieces,         \* per element, the pieces replace() cut atob's result into
  result,         \* the tensor returned by the last completed call
  fromEncode,     \* the call in progress decodes the result of an encode
  prev,           \* the call completed before the current one
  callsLeft       \* calls the caller still makes

vars == << runningInNode, x, str, pad, op, pc, i, resultValues, pieces, result,
           fromEncode, prev, callsLeft >>

NoCall ==
  [op |-> "none", pad |-> FALSE, arg |-> NoTensor, outcome |-> "idle",
   result |-> NoTensor]

ThisCall ==
  [op |-> op, pad |-> pad, arg |-> str, outcome |-> pc, result |-> result]

Init ==
  /\ runningInNode \in BOOLEAN
  /\ x \in ScalarInputs \cup ShapedInputs
  /\ str = NoTensor
  /\ pad = FALSE
  /\ op = "none"
  /\ pc = "idle"
  /\ i = 0
  /\ resultValues = <<>>
  /\ pieces = <<>>
  /\ result = NoTensor
  /\ fromEncode = FALSE
  /\ prev = NoCall
  /\ callsLeft = MaxCalls

CanCall == pc \in {"idle", "done", "threw"} /\ callsLeft > 0

\* entry of a call: convertToTensor, new Array($str.size), dataSync()
Enter(name, arg, p, chained) ==
  /\ str' = arg
  /\ pad' = p
  /\ op' = name
  /\ pc' = "loop"
  /\ i' = 0
  /\ resultValues' = [k \in 1..sizeFromShape(arg.shape) |-> Undefined]
  /\ pieces' = [k \in 1..sizeFromShape(arg.shape) |-> <<>>]
  /\ result' = NoTensor
  /\ fromEncode' = chained
  /\ prev' = IF pc = "idle" THEN prev ELSE ThisCall
  /\ callsLeft' = callsLeft - 1
  /\ UNCHANGED << runningInNode, x >>

\* encodeBase64(x, p)
EncodeCall ==
  \E p \in BOOLEAN :
    /\ CanCall
    /\ Enter("encodeBase64", x, p, FALSE)

\* the iteration stores its value from the end of the array
EncodeStepReversed ==
  /\ pc = "loop" /\ op = "encodeBase64"
  /\ i < Len(str.values)
  /\ LET bVal == EncodeValue(str.values[i + 1], pad, runningInNode)
     IN IF bVal.ok
        THEN /\ resultValues' = [resultValues EXCEPT ![Len(str.values) - i] = bVal.val]
             /\ i' = i + 1
             /\ pc' = pc
        ELSE /\ pc' = "threw"
             /\ UNCHANGED << resultValues, i >>
  /\ UNCHANGED << runningInNode, x, str, pad, op, pieces, result, fromEncode,
                  prev, callsLeft >>

\* the iteration also writes its value into the array of the input tensor
EncodeStepInPlace ==
  /\ pc = "loop" /\ op = "encodeBase64"
  /\ i < Len(str.values)
  /\ LET bVal == EncodeValue(str.values[i + 1], pad, runningInNode)
     IN IF bVal.ok
        THEN /\ resultValues' = [resultValues EXCEPT ![i + 1] = bVal.val]
             /\ str' = [str EXCEPT !.values[i + 1] = bVal.val]
             /\ x' = IF x = str THEN str' ELSE x
             /\ i' = i + 1
             /\ pc' = pc
        ELSE /\ pc' = "threw"
             /\ UNCHANGED << resultValues, i, str, x >>
  /\ UNCHANGED << runningInNode, pad, op, pieces, result, fromEncode,
                  prev, callsLeft >>

\* one iteration of the loop of encodeBase64_
EncodeStep ==
  /\ pc = "loop" /\ op = "encodeBase64"
  /\ i < Len(str.values)
  /\ LET bVal == EncodeValue(str.values[i + 1], pad, runningInNode)
     IN IF bVal.ok
        THEN /\ resultValues' = [resultValues EXCEPT ![i + 1] = bVal.val]
             /\ i' = i + 1
             /\ pc' = pc
        ELSE /\ pc' = "threw"
             /\ UNCHANGED << resultValues, i >>
  /\ UNCHANGED << runningInNode, x, str, pad, op, pieces, result, fromEncode,
                  prev, callsLeft >>

\* return Tensor.make($str.shape, {values: resultValues}, $str.dtype)
EncodeReturn ==
  /\ pc = "loop" /\ op = "encodeBase64"
  /\ i >= Len(str.values)
  /\ result' = TensorMake(str.shape, resultValues)
  /\ pc' = "done"
  /\ UNCHANGED << runningInNode, x, str, pad, op, i, resultValues, pieces,
                  fromEncode, prev, callsLeft >>

\* decodeBase64(x)
DecodeCall ==
  /\ CanCall
  /\ Enter("decodeBase64", x, FALSE, FALSE)

\* decodeBase64(r) for the result r of the encodeBase64 call just completed
DecodeResultCall ==
  /\ CanCall
  /\ pc = "done" /\ op = "encodeBase64"
  /\ Enter("decodeBase64", result, FALSE, TRUE)

\* one iteration of the loop of decodeBase64_
DecodeStep ==
  /\ pc = "loop" /\ op = "decodeBase64"
  /\ i < Len(str.values)
  /\ LET sVal == DecodeValue(str.values[i + 1], runningInNode)
         bin == atob(fromUrlSafe(str.values[i + 1]))
     IN IF sVal.ok
        THEN /\ resultValues' = [resultValues EXCEPT ![i + 1] = sVal.val]
             /\ pieces' = [pieces EXCEPT ![i + 1] =
                             IF runningInNode THEN <<>> ELSE multibyteSeq(bin.val)]
             /\ i' = i + 1
             /\ pc' = pc
        ELSE /\ pc' = "threw"
             /\ UNCHANGED << resultValues, pieces, i >>
  /\ UNCHANGED << runningInNode, x, str, pad, op, result, fromEncode, prev,
                  callsLeft >>

\* return Tensor.make($str.shape, {values: resultValues}, $str.dtype)
DecodeReturn ==
  /\ pc = "loop" /\ op = "decodeBase64"
  /\ i >= Len(str.values)
  /\ result' = TensorMake(str.shape, resultValues)
  /\ pc' = "done"
  /\ UNCHANGED << runningInNode, x, str, pad, op, i, resultValues, pieces,
                  fromEncode, prev, callsLeft >>

\* the caller builds another tensor of the same values in another shape
\* (tensor2d(txtArr, [2, 4]) and tensor3d(txtArr, [2, 2, 2]) in the tests)
Rearrange ==
  /\ pc \in {"done", "threw"} /\ callsLeft > 0
  /\ x \in ShapedInputs /\ x = str
  /\ \E sh \in Shapes :
       /\ sh # x.shape
       /\ sizeFromShape(sh) = sizeFromShape(x.shape)
       /\ x' = [x EXCEPT !.shape = sh]
  /\ UNCHANGED << runningInNode, str, pad, op, pc, i, resultValues, pieces,
                  result, fromEncode, prev, callsLeft >>

\* the caller builds another tensor that differs in one element
ReplaceElement ==
  /\ pc \in {"done", "threw"} /\ callsLeft > 0
  /\ x \in ShapedInputs /\ x = str
  /\ \E k \in 1..Len(x.values) : \E e \in Elements :
       /\ e # x.values[k]
       /\ x' = [x EXCEPT !.values[k] = e]
  /\ UNCHANGED << runningInNode, str, pad, op, pc, i, resultValues, pieces,
                  result, fromEncode, prev, callsLeft >>

Next ==
  \/ EncodeCall
  \/ EncodeStep
  \/ EncodeReturn
  \/ DecodeCall
  \/ DecodeResultCall
  \/ DecodeStep
  \/ DecodeReturn
  \/ Rearrange
  \/ ReplaceElement

Spec == Init /\ [][Next]_vars

(***************************************************************************)
(* Reference definitions the claims are stated with.  They are written     *)
(* from RFC 4648 and the UTF-8 bit layout, on sequences of bits, and use   *)
(* none of the operators above.                                            *)
(***************************************************************************)
RECURSIVE ValidUnicode(_)
ValidUnicode(s) ==
  IF s = <<>> THEN TRUE
  ELSE IF s[1] >= 56320 /\ s[1] <= 57343 THEN FALSE
  ELSE IF s[1] >= 55296 /\ s[1] <= 56319
       THEN Len(s) >= 2 /\ s[2] >= 56320 /\ s[2] <= 57343
            /\ ValidUnicode(SubSeq(s, 3, Len(s)))
       ELSE ValidUnicode(Tail(s))

AllValidUnicode(values) == \A k \in 1..Len(values) : ValidUnicode(values[k])

\* the w low bits of n, most significant first
Bits(n, w) == [k \in 1..w |-> (n \div (2 ^ (w - k))) % 2]

RECURSIVE BitsValue(_)
BitsValue(b) ==
  IF b = <<>> THEN 0 ELSE 2 * BitsValue(SubSeq(b, 1, Len(b) - 1)) + b[Len(b)]

RECURSIVE RefCodePoints(_)
RefCodePoints(s) ==
  IF s = <<>> THEN <<>>
  ELSE IF s[1] >= 55296 /\ s[1] <= 56319 /\ Len(s) >= 2
       THEN << 65536 + 1024 * (s[1] - 55296) + (s[2] - 56320) >>
            \o RefCodePoints(SubSeq(s, 3, Len(s)))
       ELSE << s[1] >> \o RefCodePoints(Tail(s))

RefUtf8Bits(cp) ==
  IF cp < 128 THEN << 0 >> \o Bits(cp, 7)
  ELSE IF cp < 2048 THEN
    LET b == Bits(cp, 11)
    IN << 1, 1, 0 >> \o SubSeq(b, 1, 5) \o << 1, 0 >> \o SubSeq(b, 6, 11)
  ELSE IF cp < 65536 THEN
    LET b == Bits(cp, 16)
    IN << 1, 1, 1, 0 >> \o SubSeq(b, 1, 4) \o << 1, 0 >> \o SubSeq(b, 5, 10)
       \o << 1, 0 >> \o SubSeq(b, 11, 16)
  ELSE
    LET b == Bits(cp, 21)
    IN << 1, 1, 1, 1, 0 >> \o SubSeq(b, 1, 3) \o << 1, 0 >> \o SubSeq(b, 4, 9)
       \o << 1, 0 >> \o SubSeq(b, 10, 15) \o << 1, 0 >> \o SubSeq(b, 16, 21)

\* "A..Za..z0..9-_"
RefUrlSafeAlphabet ==
  << 65, 66, 67, 68, 69, 70, 71, 72, 73, 74, 75, 76, 77, 78, 79, 80,
     81, 82, 83, 84, 85, 86, 87, 88, 89, 90, 97, 98, 99, 100, 101, 102,
     103, 104, 105, 106, 107, 108, 109, 110, 111, 112, 113, 114, 115, 116, 117, 118,
     119, 120, 121, 122, 48, 49, 50, 51, 52, 53, 54, 55, 56, 57, 45, 95 >>

RECURSIVE RefSextets(_)
RefSextets(bits) ==
  IF bits = <<>> THEN <<>>
  ELSE IF Len(bits) < 6
       THEN << RefUrlSafeAlphabet[1 + BitsValue(bits \o [k \in 1..(6 - Len(bits)) |-> 0])] >>
       ELSE << RefUrlSafeAlphabet[1 + BitsValue(SubSeq(bits, 1, 6))] >>
            \o RefSextets(SubSeq(bits, 7, Len(bits)))

RefEncode(v, p) ==
  LET cps == RefCodePoints(v)
      bits == Join([k \in 1..Len(cps) |-> RefUtf8Bits(cps[k])])
      nbytes == Len(bits) \div 8
      npad == IF p THEN (3 - (nbytes % 3)) % 3 ELSE 0
  IN RefSextets(bits) \o [k \in 1..npad |-> 61]

RECURSIVE StripTrailingEq(_)
StripTrailingEq(s) ==
  IF s # <<>> /\ s[Len(s)] = 61 THEN StripTrailingEq(SubSeq(s, 1, Len(s) - 1))
  ELSE s

RefIndex(c) == CHOOSE n \in 0..63 : RefUrlSafeAlphabet[n + 1] = c

InRefAlphabet(c) == \E n \in 1..64 : RefUrlSafeAlphabet[n] = c

\* '+' and '/' read as '-' and '_'
RefSafe(c) == IF c = 43 THEN 45 ELSE IF c = 47 THEN 95 ELSE c

\* s is Base64 text in either alphabet with at most two '=' at its end
RefIsBase64(s) ==
  LET t == StripTrailingEq(s)
  IN /\ Len(s) - Len(t) <= 2
     /\ \A k \in 1..Len(t) : InRefAlphabet(RefSafe(t[k]))
     /\ Len(t) % 4 # 1

RECURSIVE RefBytes(_)
RefBytes(bits) ==
  IF Len(bits) < 8 THEN <<>>
  ELSE << BitsValue(SubSeq(bits, 1, 8)) >> \o RefBytes(SubSeq(bits, 9, Len(bits)))

RefDecodedBytes(s) ==
  LET t == StripTrailingEq(s)
  IN RefBytes(Join([k \in 1..Len(t) |-> Bits(RefIndex(RefSafe(t[k])), 6)]))

RefCont(b, k, lo, hi) == k <= Len(b) /\ b[k] >= lo /\ b[k] <= hi

\* well-formed UTF-8 byte sequences, table 3-7 of the Unicode standard
RECURSIVE RefValidUtf8(_)
RefValidUtf8(b) ==
  IF b = <<>> THEN TRUE
  ELSE IF b[1] <= 127 THEN RefValidUtf8(Tail(b))
  ELSE IF b[1] >= 194 /\ b[1] <= 223 THEN
    RefCont(b, 2, 128, 191) /\ RefValidUtf8(SubSeq(b, 3, Len(b)))
  ELSE IF b[1] >= 224 /\ b[1] <= 239 THEN
    /\ RefCont(b, 2, IF b[1] = 224 THEN 160 ELSE 128, IF b[1] = 237 THEN 159 ELSE 191)
    /\ RefCont(b, 3, 128, 191)
    /\ RefValidUtf8(SubSeq(b, 4, Len(b)))
  ELSE IF b[1] >= 240 /\ b[1] <= 244 THEN
    /\ RefCont(b, 2, IF b[1] = 240 THEN 144 ELSE 128, IF b[1] = 244 THEN 143 ELSE 191)
    /\ RefCont(b, 3, 128, 191)
    /\ RefCont(b, 4, 128, 191)
    /\ RefValidUtf8(SubSeq(b, 5, Len(b)))
  ELSE FALSE

\* v has a character outside both alphabets and '=', or is Base64 text
\* whose bytes are not UTF-8
Malformed(v) ==
  \/ \E k \in 1..Len(v) : v[k] # 61 /\ ~InRefAlphabet(RefSafe(v[k]))
  \/ RefIsBase64(v) /\ ~RefValidUtf8(RefDecodedBytes(v))

Finished == pc \in {"done", "threw"}

(***************************************************************************)
(* Claims.                                                                 *)
(***************************************************************************)
HasUnit(values, P(_)) ==
  \E k \in 1..Len(values) : \E j \in 1..Len(values[k]) : P(values[k][j])

\* C1: decodeBase64 of the result of encodeBase64(v, pad) completes and
\* returns exactly v, for every valid Unicode v, padded or not.
RoundTrip ==
  (op = "decodeBase64" /\ fromEncode /\ Finished
   /\ AllValidUnicode(prev.arg.values))
  => (pc = "done" /\ result = prev.arg)

\* an unpadded encoding whose length is no multiple of 4, of a text with a
\* character outside ASCII, has been decoded
RoundTripWitness ==
  /\ op = "decodeBase64" /\ fromEncode /\ pc = "done"
  /\ ~prev.pad
  /\ AllValidUnicode(prev.arg.values)
  /\ HasUnit(prev.arg.values, LAMBDA u : u > 127)
  /\ \E k \in 1..Len(str.values) : Len(str.values[k]) % 4 # 0
  /\ result = prev.arg

ValueOf(name, v, p) ==
  IF name = "encodeBase64" THEN EncodeValue(v, p, runningInNode)
  ELSE DecodeValue(v, runningInNode)

\* C3: the result has the shape and the number of elements of the input,
\* element k of the result is the encoding (decoding) of element k of the
\* input, and the same values in another shape give the same values.
ShapePreserved ==
  pc = "done"
  => /\ result.shape = str.shape
     /\ Len(result.values) = Len(str.values)
     /\ Len(result.values) = sizeFromShape(str.shape)
     /\ \A k \in 1..Len(str.values) :
          Ok(result.values[k]) = ValueOf(op, str.values[k], pad)
     /\ (prev.op = op /\ prev.pad = pad /\ prev.outcome = "done"
         /\ prev.arg.values = str.values)
        => prev.result.values = result.values

\* the same two values have been processed in two different shapes
ShapePreservedWitness ==
  /\ pc = "done"
  /\ prev.op = op /\ prev.pad = pad /\ prev.outcome = "done"
  /\ prev.arg.values = str.values
  /\ prev.arg.shape # str.shape
  /\ Len(str.values) >= 2
  /\ str.values[1] # str.values[2]

\* C4: encodeBase64(s, true) and encodeBase64(s, false) differ only in
\* trailing '=': the padded result without its trailing '=' is the unpadded
\* result, which has no '=' at all.
PadOnlyTrailing ==
  (op = "encodeBase64" /\ pc = "done" /\ prev.op = "encodeBase64"
   /\ prev.outcome = "done" /\ prev.arg = str /\ prev.pad # pad)
  => LET padded == IF pad THEN result ELSE prev.result
         unpadded == IF pad THEN prev.result ELSE result
     IN \A k \in 1..Len(str.values) :
          /\ StripTrailingEq(padded.values[k]) = unpadded.values[k]
          /\ \A j \in 1..Len(unpadded.values[k]) : unpadded.values[k][j] # 61

\* both results of a text of one byte, padded with "==", are there
PadOnlyTrailingWitness ==
  /\ op = "encodeBase64" /\ pc = "done" /\ prev.op = "encodeBase64"
  /\ prev.outcome = "done" /\ prev.arg = str /\ prev.pad # pad
  /\ \E k \in 1..Len(str.values) :
       LET padded == IF pad THEN result.values[k] ELSE prev.result.values[k]
       IN Len(padded) = 4 /\ padded[3] = 61 /\ padded[4] = 61

IsUrlSafe(s) ==
  \A j \in 1..Len(s) :
    \/ InRefAlphabet(s[j])
    \/ s[j] = 61 /\ \A m \in j..Len(s) : s[m] = 61

\* C5: no character of an encodeBase64 result is '+' or '/': each is in
\* A-Z a-z 0-9 '-' '_' or is a trailing '='.
UrlSafe ==
  op = "encodeBase64"
  => /\ \A k \in 1..i : IsUrlSafe(resultValues[k])
     /\ pc = "done" => \A k \in 1..Len(result.values) : IsUrlSafe(result.values[k])

\* a result holds '-' and '_' and ends in '='
UrlSafeWitness ==
  /\ op = "encodeBase64" /\ pc = "done"
  /\ \E k \in 1..Len(result.values) :
       LET r == result.values[k]
       IN /\ \E j \in 1..Len(r) : r[j] = 45
          /\ \E j \in 1..Len(r) : r[j] = 95
          /\ r # <<>> /\ r[Len(r)] = 61

\* C6: decodeBase64 of a tensor with a malformed element fails with an
\* error and returns no tensor.
MalformedFails ==
  (op = "decodeBase64" /\ \E k \in 1..Len(str.values) : Malformed(str.values[k]))
  => pc # "done"

\* C7: the manual path and the Buffer path give the same encodeBase64
\* result for every valid Unicode input, and the same decodeBase64 result
\* for every such encoder output.
PathsAgree ==
  /\ (op = "encodeBase64" /\ pc = "done" /\ AllValidUnicode(str.values))
     => \A k \in 1..Len(str.values) :
          EncodeValue(str.values[k], pad, ~runningInNode) = Ok(result.values[k])
  /\ (op = "decodeBase64" /\ fromEncode /\ pc = "done"
      /\ AllValidUnicode(prev.arg.values))
     => \A k \in 1..Len(str.values) :
          DecodeValue(str.values[k], ~runningInNode) = Ok(result.values[k])

\* the encoding of a text with a surrogate pair has been decoded
PathsAgreeWitness ==
  /\ op = "decodeBase64" /\ fromEncode /\ pc = "done"
  /\ AllValidUnicode(prev.arg.values)
  /\ HasUnit(prev.arg.values, LAMBDA u : u >= 55296 /\ u <= 56319)
  /\ HasUnit(prev.arg.values, LAMBDA u : u >= 128 /\ u < 2048)

\* C8: two inputs of the same length that agree at index k give results
\* that agree at index k.
Independent ==
  (pc = "done" /\ prev.outcome = "done" /\ prev.op = op /\ prev.pad = pad
   /\ Len(prev.arg.values) = Len(str.values))
  => \A k \in 1..Len(str.values) :
       prev.arg.values[k] = str.values[k]
       => prev.result.values[k] = result.values[k]

\* two inputs that agree at one index and differ at another
IndependentWitness ==
  /\ pc = "done" /\ prev.outcome = "done" /\ prev.op = op /\ prev.pad = pad
  /\ Len(prev.arg.values) = Len(str.values)
  /\ \E k \in 1..Len(str.values) : prev.arg.values[k] = str.values[k]
  /\ \E k \in 1..Len(str.values) :
       /\ prev.arg.values[k] # str.values[k]
       /\ prev.result.values[k] # result.values[k]

Stateless ==
  (Finished /\ prev.op = op /\ prev.pad = pad /\ prev.arg = str)
  => (prev.outcome = pc /\ prev.result = result)

\* C9: a call leaves its input tensor unchanged, and a second call with the
\* same input and pad returns the same result.
InputUnchanged ==
  /\ [][pc = "loop" => (x' = x /\ str' = str)]_vars
  /\ [](pc = "loop" => \A k \in (i + 1)..Len(resultValues) : resultValues[k] = Undefined)
  /\ []Stateless

\* the same call has been made twice
InputUnchangedWitness ==
  /\ pc = "done" /\ prev.op = op /\ prev.pad = pad /\ prev.arg = str
  /\ prev.outcome = "done" /\ prev.result = result
  /\ str = x
  /\ HasUnit(str.values, LAMBDA u : u > 127)

\* C10: in the manual path replace() cuts atob's result at the boundaries
\* of the encoder's code points, utf8MultibyteToUtf16 of each 2-, 3- or
\* 4-byte piece is the code point it came from, and a byte below 0x80 is
\* kept.
BitPackInverse ==
  (op = "decodeBase64" /\ fromEncode /\ ~runningInNode /\ pc = "done")
  => \A k \in 1..Len(str.values) :
       LET chars == ArrayFrom(prev.arg.values[k])
       IN /\ Len(pieces[k]) = Len(chars)
          /\ \A j \in 1..Len(chars) :
               /\ pieces[k][j] = utf16ToUtf8Multibyte(chars[j])
               /\ Len(pieces[k][j]) = 1
                  => (pieces[k][j] = chars[j] /\ chars[j][1] < 128)
               /\ Len(pieces[k][j]) > 1
                  => utf8MultibyteToUtf16(pieces[k][j]) = Ok(chars[j])
          /\ result.values[k] = Join(chars)

\* a 4-byte piece next to a 2-byte or 3-byte piece has been converted
BitPackInverseWitness ==
  /\ op = "decodeBase64" /\ fromEncode /\ ~runningInNode /\ pc = "done"
  /\ \E k \in 1..Len(pieces) :
       /\ \E j \in 1..Len(pieces[k]) : Len(pieces[k][j]) = 4
       /\ \E j \in 1..Len(pieces[k]) : Len(pieces[k][j]) \in {2, 3}

====
